---- MODULE Spec2Model ----
(***************************************************************************)
(* Edge-field extraction and particle steering of the ParticleCanvas       *)
(* component (src/unnamed/part_002), as a state machine.                   *)
(*                                                                         *)
(* Numbers.  JavaScript numbers are modelled in fixed point:               *)
(*   magnitudes            in units of 1/MagScale                          *)
(*   positions, velocities, sizes, hue offsets in units of 1/Scale         *)
(*   life                  in units of 1/LifeScale                         *)
(*   Math.random()         as k/RandDen, 0 <= k < RandDen                  *)
(* A store into a Float32Array, and every product with a non-integer       *)
(* constant, rounds to the nearest unit (ties to even), as IEEE            *)
(* arithmetic does at its own resolution.                                  *)
(***************************************************************************)
EXTENDS Integers, FiniteSets, Sequences, TLC

VARIABLES
    running,            \* prop: the loop is on
    theme,              \* prop: the theme object
    trailEffect,        \* prop: trails on/off
    intensity,          \* prop: particle-count multiplier, [num, den]
    maskCanvas,         \* prop: the mask canvas (NoMask: null)
    canvas,             \* the drawing surface: client size and buffer size
    rafRef,             \* rafRef.current: the pending animation-frame handle
    particlesRef,       \* particlesRef.current: the pool
    edgeFieldRef,       \* edgeFieldRef.current: the cached field
    smoothMagRef,       \* smoothMagRef.current: the smoothing history
    edgeUpdateCounter,  \* edgeUpdateCounter.current
    prevPosRef,         \* prevPosRef.current: Map particle -> {x, y}
    frameCount,         \* the effect closure's frameCount
    scheduled,          \* animation-frame callbacks requested and not yet
                        \* run or cancelled (their handles)
    samples,            \* the sample pool built by the latest stepParticles
    drawn,              \* what the latest drawParticles call drew
    fieldHeap,          \* every field object computeEdgeField has returned,
                        \* in order of creation, as it is now
    nextId,             \* object identities handed out so far
    started,            \* CameraFeed state: started
    error,              \* CameraFeed state: error (NoError: null)
    camPc,              \* where startCamera, or its loop, stands
    isProcessing,       \* startCamera's isProcessing
    camRafRef,          \* CameraFeed's rafRef.current (0: null)
    camScheduled,       \* animation-frame callbacks of the processing loop
                        \* requested and not yet run or cancelled
    outstanding,        \* seg.send requests not yet settled
    handled,            \* the handler has run for the send in flight
    results,            \* the argument of the latest handler call
    unmounted,          \* the unmount cleanups have run
    camFrames,          \* iterations of the processing loop begun
    pc                  \* the operation that produced this state

vars == <<running, theme, trailEffect, intensity, maskCanvas, canvas, rafRef,
          scheduled, particlesRef, edgeFieldRef, smoothMagRef, edgeUpdateCounter,
          prevPosRef, frameCount, samples, drawn, fieldHeap, nextId,
          started, error, camPc, isProcessing, camRafRef, camScheduled,
          outstanding, handled, results, unmounted, camFrames, pc>>

propVars == <<running, theme, trailEffect, intensity, maskCanvas>>
loopVars == <<rafRef, scheduled, frameCount>>
poolVars == <<particlesRef, prevPosRef, samples, drawn, nextId>>
fieldVars == <<edgeFieldRef, smoothMagRef, edgeUpdateCounter, fieldHeap>>
camVars == <<started, error, camPc, isProcessing, camRafRef, camScheduled,
             outstanding, handled, results, unmounted, camFrames>>

(***************************************************************************)
(* Program constants (part_002, lines 3-12); fractions in hundredths.      *)
(***************************************************************************)
BASE_PARTICLE_COUNT == 1600
SIZE_MIN == 80
SIZE_MAX == 180
EDGE_THRESHOLD == 60
EDGE_SMOOTH == 65
STICK_FORCE == 45
TANGENTIAL_JITTER == 40
DRAG == 88
SPEED_THRESHOLD == 3

(***************************************************************************)
(* Resolutions of the fixed-point numbers.                                 *)
(***************************************************************************)
MagScale == 4
Scale == 100
LifeScale == 1000
RandDen == 100

(***************************************************************************)
(* Bounds of the model.                                                    *)
(***************************************************************************)
MaxFieldTicks == 5  \* loop iterations in one behaviour of SpecField
MaxTicks == 3       \* loop iterations (calls) in one behaviour otherwise
MaxDecayTicks == 36 \* loop iterations in one behaviour of SpecDecay

(***************************************************************************)
(* Arithmetic helpers.                                                     *)
(***************************************************************************)
Abs(a) == IF a < 0 THEN -a ELSE a
Min(a, b) == IF a < b THEN a ELSE b
Max(a, b) == IF a > b THEN a ELSE b

\* num / den rounded to the nearest integer, ties to even (den > 0)
RoundDiv(num, den) ==
    LET q == num \div den
        r == num % den
    IN  IF 2 * r < den THEN q
        ELSE IF 2 * r > den THEN q + 1
        ELSE IF q % 2 = 0 THEN q ELSE q + 1

RECURSIVE SqrtSearch(_, _, _)
SqrtSearch(n, lo, hi) ==
    IF lo >= hi THEN lo
    ELSE LET mid == (lo + hi + 1) \div 2
         IN  IF mid * mid <= n THEN SqrtSearch(n, mid, hi)
             ELSE SqrtSearch(n, lo, mid - 1)

\* floor(sqrt(n)), n >= 0
Isqrt(n) == SqrtSearch(n, 0, 46340)

\* Math.sqrt(n) * num / den at integer resolution: the nearest integer
SqrtScaled(n, num, den) ==
    (Isqrt(4 * n * num * num) + den) \div (2 * den)

(***************************************************************************)
(* Arrays are functions on 0..n-1.  null and the array of length 0 are     *)
(* both the empty function: every mask has w, h >= 1, so no array of the   *)
(* program is empty.                                                       *)
(***************************************************************************)
Null == << >>
Length(a) == Cardinality(DOMAIN a)
NoMask == [null |-> TRUE]
NoField == [null |-> TRUE]

(***************************************************************************)
(* The mask canvas: what the segmentation collaborator has drawn on it.    *)
(* A canvas is [w, h, pat]; pat names its content.                         *)
(***************************************************************************)
MaskSizes == {<<1, 1>>, <<3, 3>>, <<3, 4>>, <<4, 3>>}
MaskPatterns == {"blank", "left", "dim", "corner"}

\* red channel of pixel (x, y)
Pixel(pat, x, y, w, h) ==
    CASE pat = "blank"  -> 0
      [] pat = "left"   -> IF 2 * x < w THEN 255 ELSE 0
      [] pat = "dim"    -> IF 2 * x < w THEN 40 ELSE 0
      [] pat = "corner" -> IF x = 0 /\ y = 0 THEN 255 ELSE 0
      [] pat = "right"  -> IF 2 * (w - 1 - x) < w THEN 255 ELSE 0
      [] pat = "soft"   -> IF 2 * x < w THEN 200 ELSE 100
      [] OTHER          -> 0

\* ctx.getImageData(0, 0, w, h).data: RGBA, four entries per pixel
getImageData(mc) ==
    [i \in 0..(4 * mc.w * mc.h - 1) |->
        IF i % 4 = 3 THEN 255
        ELSE Pixel(mc.pat, (i \div 4) % mc.w, (i \div 4) \div mc.w, mc.w, mc.h)]

Masks(sizes, pats) ==
    {[w |-> s[1], h |-> s[2], pat |-> p] : s \in sizes, p \in pats}

(***************************************************************************)
(* computeEdgeField (part_002, lines 141-184).                             *)
(***************************************************************************)
\* a faulty variant: the length of the RGBA data
ArrayLengthOfImageData(w, h) == 4 * w * h

\* new Float32Array(w * h): the length of each of mag, gx, gy
ArrayLength(w, h) == w * h

\* a faulty variant: loops from 0 to w - 1 and 0 to h - 1
InteriorAndBorder(x, y, w, h) == x \in 0..(w - 1) /\ y \in 0..(h - 1)

\* the cells the two for-loops visit
Interior(x, y, w, h) == x \in 1..(w - 2) /\ y \in 1..(h - 2)

\* const idx = y * w + x
Index(x, y, w) == y * w + x

\* at(x, y): the red channel of the pixel, coordinates clamped to the mask
at(img, w, h, x, y) ==
    img[(Max(0, Min(h - 1, y)) * w + Max(0, Min(w - 1, x))) * 4]

\* the Sobel sums sx and sy at (x, y)
SobelX(img, w, h, x, y) ==
    (at(img, w, h, x + 1, y - 1) + 2 * at(img, w, h, x + 1, y)
        + at(img, w, h, x + 1, y + 1))
    - (at(img, w, h, x - 1, y - 1) + 2 * at(img, w, h, x - 1, y)
        + at(img, w, h, x - 1, y + 1))

SobelY(img, w, h, x, y) ==
    (at(img, w, h, x - 1, y + 1) + 2 * at(img, w, h, x, y + 1)
        + at(img, w, h, x + 1, y + 1))
    - (at(img, w, h, x - 1, y - 1) + 2 * at(img, w, h, x, y - 1)
        + at(img, w, h, x + 1, y - 1))

\* let m = g > threshold ? g : 0, with g = Math.sqrt(sx*sx + sy*sy) / 4,
\* in magnitude units.  g > threshold is decided exactly, on the squares.
Thresholded(sx, sy, threshold) ==
    IF sx * sx + sy * sy > 16 * threshold * threshold
    THEN SqrtScaled(sx * sx + sy * sy, MagScale, 4)
    ELSE 0

\* prevMagShared && prevMagShared.length === mag.length
UseHistory(prevMagShared, n) ==
    prevMagShared # Null /\ Length(prevMagShared) = n

\* a faulty variant: the new value is not weighted by 1 - EDGE_SMOOTH
BlendUnweighted(prev, m) == prev * EDGE_SMOOTH + m * 100

\* m = prevMagShared[idx] * EDGE_SMOOTH + m * (1 - EDGE_SMOOTH),
\* in hundredths of a magnitude unit (exact)
Blend(prev, m) == prev * EDGE_SMOOTH + m * (100 - EDGE_SMOOTH)

\* a faulty variant: the smoothed values are stored into the history array
HistoryBlendedInPlace(prevMagShared, mag) ==
    IF UseHistory(prevMagShared, Length(mag)) THEN mag ELSE prevMagShared

\* the array passed as prevMagShared when computeEdgeField returns: it is
\* read (lines 171-172) and never stored into
HistoryAfter(prevMagShared, mag) == prevMagShared

\* the field objects after a call of computeEdgeField that got the mag of
\* the newest of them as history and returned field
HeapAfter(heap, prevMagShared, field) ==
    Append([i \in 1..Len(heap) |->
                IF i = Len(heap)
                THEN [heap[i] EXCEPT !.mag = HistoryAfter(prevMagShared, field.mag)]
                ELSE heap[i]],
           field)

\* the cells the two for-loops visit, as a set
LoopCells(w, h) ==
    {c \in (0..(w - 1)) \X (0..(h - 1)) : Interior(c[1], c[2], w, h)}

\* lines 160-165: the Sobel pair <<sx, sy>> of every visited cell
SobelOf(img, w, h) ==
    [c \in LoopCells(w, h) |->
        <<SobelX(img, w, h, c[1], c[2]), SobelY(img, w, h, c[1], c[2])>>]

\* lines 166-173: m before the store, in hundredths of a magnitude unit
SmoothedOf(sob, w, h, threshold, prevMagShared) ==
    [c \in DOMAIN sob |->
        IF UseHistory(prevMagShared, ArrayLength(w, h))
        THEN Blend(prevMagShared[Index(c[1], c[2], w)],
                   Thresholded(sob[c][1], sob[c][2], threshold))
        ELSE 100 * Thresholded(sob[c][1], sob[c][2], threshold)]

\* a faulty variant: a cell of magnitude zero is counted too
CountsAsEdgeOrZero(m) == m >= 0

\* line 175: if (m > 0) edgeCount++
CountsAsEdge(m) == m > 0

\* lines 175-183: the stores and the returned object; byIndex[i] is the set
\* of cells whose iteration writes index i (a write past the end of a typed
\* array is dropped)
FieldOf(w, h, n, sob, m100, byIndex) ==
    [w |-> w,
     h |-> h,
     mag |-> [i \in 0..(n - 1) |->
                IF byIndex[i] = {} THEN 0
                ELSE RoundDiv(m100[CHOOSE c \in byIndex[i] : TRUE], 100)],
     gx |-> [i \in 0..(n - 1) |->
                IF byIndex[i] = {} THEN 0
                ELSE sob[CHOOSE c \in byIndex[i] : TRUE][1]],
     gy |-> [i \in 0..(n - 1) |->
                IF byIndex[i] = {} THEN 0
                ELSE sob[CHOOSE c \in byIndex[i] : TRUE][2]],
     edgeCount |-> Cardinality({c \in DOMAIN m100 : CountsAsEdge(m100[c])})]

WritersOf(w, h, n) ==
    [i \in 0..(n - 1) |-> {c \in LoopCells(w, h) : Index(c[1], c[2], w) = i}]

FieldFromSobel(w, h, sob, threshold, prevMagShared) ==
    FieldOf(w, h, ArrayLength(w, h), sob,
            SmoothedOf(sob, w, h, threshold, prevMagShared),
            WritersOf(w, h, ArrayLength(w, h)))

computeEdgeField(mc, threshold, prevField, prevMagShared) ==
    FieldFromSobel(mc.w, mc.h, SobelOf(getImageData(mc), mc.w, mc.h),
                   threshold, prevMagShared)

(***************************************************************************)
(* Math.random().  A draw is its numerator k: the value is k / RandDen.    *)
(***************************************************************************)
Rand == {0, RandDen \div 2, RandDen - 1}
RandEnds == {0, RandDen - 1}
\* the two draws of one probe of the sample pool, both the same
ProbeDraws(R) == {<<k, k>> : k \in R}

\* (Math.random() - 0.5) * c, with c in hundredths, in units of 1/unit
Centered(k, c, unit) == RoundDiv((2 * k - RandDen) * c * unit, 200 * RandDen)

\* Math.floor(Math.random() * n)
RandomIndex(k, n) == (k * n) \div RandDen

(***************************************************************************)
(* initParticles (part_002, lines 121-139).  seeds[i] holds the eight      *)
(* draws of particle i; a particle object is identified by its id.         *)
(***************************************************************************)
\* a faulty variant: the draw is not offset by SIZE_MIN
SizeDrawFromZero(k) ==
    RoundDiv(k * SIZE_MAX * Scale, 100 * RandDen)

\* SIZE_MIN + Math.random() * (SIZE_MAX - SIZE_MIN), in size units
SizeDraw(k) ==
    RoundDiv((SIZE_MIN * RandDen + k * (SIZE_MAX - SIZE_MIN)) * Scale,
             100 * RandDen)

\* a faulty variant: the loop ends one particle early
initParticlesOneShort(count, cv, seeds, firstId) ==
    [i \in 1..(count - 1) |->
        [id |-> firstId + i - 1,
         x |-> RoundDiv(seeds[i].x * cv.clientWidth * Scale, RandDen),
         y |-> RoundDiv(seeds[i].y * cv.clientHeight * Scale, RandDen),
         vx |-> Centered(seeds[i].vx, 50, Scale),
         vy |-> Centered(seeds[i].vy, 50, Scale),
         size |-> SizeDraw(seeds[i].size),
         baseSize |-> SizeDraw(seeds[i].baseSize),
         life |-> RoundDiv(seeds[i].life * LifeScale, RandDen),
         hueOffset |-> Centered(seeds[i].hueOffset, 2000, Scale)]]

initParticles(count, cv, seeds, firstId) ==
    [i \in 1..count |->
        [id |-> firstId + i - 1,
         x |-> RoundDiv(seeds[i].x * cv.clientWidth * Scale, RandDen),
         y |-> RoundDiv(seeds[i].y * cv.clientHeight * Scale, RandDen),
         vx |-> Centered(seeds[i].vx, 50, Scale),
         vy |-> Centered(seeds[i].vy, 50, Scale),
         size |-> SizeDraw(seeds[i].size),
         baseSize |-> SizeDraw(seeds[i].baseSize),
         life |-> RoundDiv(seeds[i].life * LifeScale, RandDen),
         hueOffset |-> Centered(seeds[i].hueOffset, 2000, Scale)]]

(***************************************************************************)
(* stepParticles (part_002, lines 186-268).                                *)
(***************************************************************************)
\* const sampleCount = Math.min(800, Math.floor(w * h * 0.02))
SampleCount(w, h) == Min(800, (w * h * 2) \div 100)

\* lines 193-200: probes[i] = <<k1, k2>>, the two draws of probe i
BuildSamples(field, probes) ==
    LET cell(pr) ==
            LET x == RandomIndex(pr[1], field.w)
                y == RandomIndex(pr[2], field.h)
            IN  [x |-> x, y |-> y, idx |-> y * field.w + x,
                 strength |-> field.mag[y * field.w + x]]
        hits == SelectSeq(probes, LAMBDA pr : cell(pr).strength > 0)
    IN  [j \in 1..Len(hits) |-> cell(hits[j])]

\* const checkCount = Math.min(5, samples.length)
CheckCount(n) == Min(5, n)

\* prevPosMap.get(p) || { x: p.x, y: p.y }
OldPos(prevPosMap, p) ==
    IF p.id \in DOMAIN prevPosMap THEN prevPosMap[p.id]
    ELSE [x |-> p.x, y |-> p.y]

\* a faulty variant: the comparison is turned, the farthest is kept
BestFarthest(p, smp, picks, W, H, w, h) ==
    LET cand(k) ==
            LET s == smp[RandomIndex(picks[k], Len(smp)) + 1]
                tx == RoundDiv(s.x * W * Scale, w)
                ty == RoundDiv(s.y * H * Scale, h)
            IN  [tx |-> tx, ty |-> ty, idx |-> s.idx, strength |-> s.strength,
                 d2 |-> (tx - p.x) * (tx - p.x) + (ty - p.y) * (ty - p.y)]
        ks == 1..Len(picks)
        kBest == CHOOSE k \in ks :
                    /\ \A j \in ks : cand(k).d2 >= cand(j).d2
                    /\ \A j \in ks : j < k => cand(j).d2 < cand(k).d2
    IN  cand(kBest)

\* lines 208-221: the sample kept among those picked; picks[k] is the draw
\* of iteration k.  d2 < bestD keeps the first of the nearest.
Best(p, smp, picks, W, H, w, h) ==
    LET cand(k) ==
            LET s == smp[RandomIndex(picks[k], Len(smp)) + 1]
                tx == RoundDiv(s.x * W * Scale, w)
                ty == RoundDiv(s.y * H * Scale, h)
            IN  [tx |-> tx, ty |-> ty, idx |-> s.idx, strength |-> s.strength,
                 d2 |-> (tx - p.x) * (tx - p.x) + (ty - p.y) * (ty - p.y)]
        ks == 1..Len(picks)
        kBest == CHOOSE k \in ks :
                    /\ \A j \in ks : cand(k).d2 <= cand(j).d2
                    /\ \A j \in ks : j < k => cand(j).d2 > cand(k).d2
    IN  cand(kBest)

\* const force = STICK_FORCE * (best.strength / 100), in velocity units
Force(strength) ==
    RoundDiv(STICK_FORCE * strength * Scale, 100 * 100 * MagScale)

\* lines 224-231: the attraction added to (vx, vy)
Attraction(p, best) ==
    LET dx == best.tx - p.x
        dy == best.ty - p.y
        dist == SqrtScaled(dx * dx + dy * dy, 1, 1)
    IN  IF dx * dx + dy * dy > Scale * Scale
        THEN [vx |-> RoundDiv(dx * Force(best.strength), dist),
              vy |-> RoundDiv(dy * Force(best.strength), dist)]
        ELSE [vx |-> 0, vy |-> 0]

\* lines 233-239: the tangential jitter added to (vx, vy)
Jitter(field, best, k) ==
    LET gxv == field.gx[best.idx]
        gyv == field.gy[best.idx]
        hyp == SqrtScaled(gxv * gxv + gyv * gyv, 1, 1)
        glen == IF hyp = 0 THEN 1 ELSE hyp
        jitter == Centered(k, TANGENTIAL_JITTER, Scale)
    IN  [vx |-> RoundDiv((0 - gyv) * jitter, glen),
         vy |-> RoundDiv(gxv * jitter, glen)]

\* a faulty variant: the relaxation assigns the increment, not the sum
SizeAfterIncrementOnly(size, baseSize, d2) ==
    IF d2 > SPEED_THRESHOLD * SPEED_THRESHOLD * Scale * Scale
    THEN RoundDiv(baseSize * 175, 100)
    ELSE RoundDiv((baseSize - size) * 5, 100)

\* lines 249-256: motion-reactive sizing; d2 is the squared distance moved
SizeAfter(size, baseSize, d2) ==
    IF d2 > SPEED_THRESHOLD * SPEED_THRESHOLD * Scale * Scale
    THEN LET speed == SqrtScaled(d2, 1, 1)
         IN  IF 2 * speed >= 45 * Scale
             THEN RoundDiv(baseSize * 175, 100)
             ELSE RoundDiv(baseSize * (30 * Scale + speed), 30 * Scale)
    ELSE RoundDiv(size * 95 + baseSize * 5, 100)

\* a faulty variant: re-entry at the bound, without the margin
StepWrapToBound(x, bound) ==
    IF x < -10 * Scale THEN bound * Scale
    ELSE IF x > bound * Scale + 10 * Scale THEN 0
    ELSE x

\* lines 258-261: wrap with a margin of 10
StepWrap(x, bound) ==
    IF x < -10 * Scale THEN bound * Scale + 10 * Scale
    ELSE IF x > bound * Scale + 10 * Scale THEN -10 * Scale
    ELSE x

\* lines 263-264
StepLife(life, k) ==
    LET l == life + RoundDiv((8 * RandDen + 4 * k) * LifeScale, 1000 * RandDen)
    IN  IF l > LifeScale THEN 0 ELSE l

\* lines 223-240: the velocity after attraction and jitter toward best
Accelerated(p, field, best, kj) ==
    [vx |-> p.vx + Attraction(p, best).vx + Jitter(field, best, kj).vx,
     vy |-> p.vy + Attraction(p, best).vy + Jitter(field, best, kj).vy]

\* the velocity a particle has before drag (lines 207-241); d is the
\* particle's draws [picks, jitter, life]
StepAccel(p, field, smp, d, W, H) ==
    IF Len(smp) > 0
    THEN Accelerated(p, field, Best(p, smp, d.picks, W, H, field.w, field.h),
                     d.jitter)
    ELSE [vx |-> p.vx, vy |-> p.vy]

\* lines 249-266, from the integrated position (x, y)
StepFinish(p, vx, vy, x, y, oldPos, kl, W, H) ==
    [p EXCEPT !.vx = vx, !.vy = vy,
              !.x = StepWrap(x, W), !.y = StepWrap(y, H),
              !.size = SizeAfter(p.size, p.baseSize,
                                 (x - oldPos.x) * (x - oldPos.x)
                                    + (y - oldPos.y) * (y - oldPos.y)),
              !.life = StepLife(p.life, kl)]

\* lines 246-247: p.x += p.vx; p.y += p.vy
StepMove(p, vx, vy, oldPos, kl, W, H) ==
    StepFinish(p, vx, vy, p.x + vx, p.y + vy, oldPos, kl, W, H)

\* a faulty variant: the position is integrated before the drag applies
StepDragAfterMove(p, v, oldPos, kl, W, H) ==
    [StepMove(p, v.vx, v.vy, oldPos, kl, W, H)
        EXCEPT !.vx = RoundDiv(v.vx * DRAG, 100),
               !.vy = RoundDiv(v.vy * DRAG, 100)]

\* lines 243-244: p.vx *= DRAG; p.vy *= DRAG
StepDrag(p, v, oldPos, kl, W, H) ==
    StepMove(p, RoundDiv(v.vx * DRAG, 100), RoundDiv(v.vy * DRAG, 100),
             oldPos, kl, W, H)

\* one iteration of the for-loop of lines 204-267
StepOne(p, field, smp, oldPos, d, W, H) ==
    StepDrag(p, StepAccel(p, field, smp, d, W, H), oldPos, d.life, W, H)

\* the draws one particle takes in a call with sample pool smp
StepDraws(smp, R) ==
    [picks : [1..CheckCount(Len(smp)) -> R],
     jitter : IF Len(smp) > 0 THEN R ELSE {0},
     life : R]

\* a faulty variant: only a particle without an entry gets one
SetPrevPosOnce(prevPosMap, new) ==
    [id \in DOMAIN prevPosMap \cup {new[i].id : i \in 1..Len(new)} |->
        IF id \in DOMAIN prevPosMap THEN prevPosMap[id]
        ELSE LET i == CHOOSE i \in 1..Len(new) : new[i].id = id
             IN  [x |-> new[i].x, y |-> new[i].y]]

\* line 266, for every particle: prevPosMap.set(p, { x: p.x, y: p.y })
SetPrevPos(prevPosMap, new) ==
    [id \in DOMAIN prevPosMap \cup {new[i].id : i \in 1..Len(new)} |->
        IF \E i \in 1..Len(new) : new[i].id = id
        THEN LET i == CHOOSE i \in 1..Len(new) : new[i].id = id
             IN  [x |-> new[i].x, y |-> new[i].y]
        ELSE prevPosMap[id]]

StepAll(particles, cv, field, prevPosMap, smp, draws) ==
    [i \in 1..Len(particles) |->
        StepOne(particles[i], field, smp, OldPos(prevPosMap, particles[i]),
                draws[i], cv.clientWidth, cv.clientHeight)]

StepResult(new, smp, prevPosMap) ==
    [particles |-> new, samples |-> smp,
     prevPosMap |-> SetPrevPos(prevPosMap, new)]

StepWith(particles, cv, field, prevPosMap, smp, draws) ==
    StepResult(StepAll(particles, cv, field, prevPosMap, smp, draws), smp,
               prevPosMap)

stepParticles(particles, cv, field, prevPosMap, probes, draws) ==
    StepWith(particles, cv, field, prevPosMap, BuildSamples(field, probes),
             draws)

(***************************************************************************)
(* driftParticles (part_002, lines 270-290).  draws[i] = [ax, ay].         *)
(***************************************************************************)
\* a faulty variant: no wrap at the upper bound
DriftWrapLowerOnly(x, bound) ==
    IF x < 0 THEN bound * Scale ELSE x

\* lines 282-285: wrap at the bounds
DriftWrap(x, bound) ==
    IF x < 0 THEN bound * Scale
    ELSE IF x > bound * Scale THEN 0
    ELSE x

\* lines 287-288
DriftLife(life) ==
    LET l == life + LifeScale \div 100
    IN  IF l > LifeScale THEN 0 ELSE l

\* lines 279-288, from the damped velocity
DriftMove(p, vx, vy, W, H) ==
    [p EXCEPT !.vx = vx, !.vy = vy,
              !.x = DriftWrap(p.x + vx, W), !.y = DriftWrap(p.y + vy, H),
              !.life = DriftLife(p.life)]

\* lines 274-277: random acceleration, then damping by 0.95
DriftOne(p, d, W, H) ==
    DriftMove(p, RoundDiv((p.vx + Centered(d.ax, 10, Scale)) * 95, 100),
              RoundDiv((p.vy + Centered(d.ay, 10, Scale)) * 95, 100), W, H)

DriftDraws(R) == [ax : R, ay : R]

driftParticles(particles, cv, draws) ==
    [i \in 1..Len(particles) |->
        DriftOne(particles[i], draws[i], cv.clientWidth, cv.clientHeight)]

(***************************************************************************)
(* The ParticleCanvas component (part_002, lines 16-103).                  *)
(***************************************************************************)
Themes == {"plasma", "ember"}
isMobile == FALSE

\* Math.floor(BASE_PARTICLE_COUNT * intensity * (isMobile ? 0.6 : 1))
Count(i) ==
    (BASE_PARTICLE_COUNT * i.num * (IF isMobile THEN 6 ELSE 10))
        \div (i.den * 10)

\* intensities: no particle, one particle, two particles
Intensity(n) == [num |-> n, den |-> BASE_PARTICLE_COUNT]

\* the draws of one initParticles call: one seed per particle
Seed(kp, kv, ks, kl) ==
    [x |-> kp, y |-> kp, vx |-> kv, vy |-> kv, size |-> ks,
     baseSize |-> RandDen - 1 - ks, life |-> kl, hueOffset |-> kv]
Seeds ==
    {Seed(0, 0, 0, RandDen - 1), Seed(RandDen - 1, RandDen - 1, RandDen - 1, 0),
     Seed(RandDen \div 2, RandDen \div 2, 0, 0)}

CanvasInit ==
    [clientWidth |-> 20, clientHeight |-> 20, width |-> 300, height |-> 150]

\* resize (lines 40-45), with devicePixelRatio 1
resize(cv) ==
    [cv EXCEPT !.width = cv.clientWidth, !.height = cv.clientHeight]

(***************************************************************************)
(* drawParticles (part_002, lines 292-325).  The colour of a shape is kept *)
(* as the values it is computed from.                                      *)
(***************************************************************************)
\* THEMES of the application; saturation and glow in hundredths
ThemeOf(name) ==
    IF name = "plasma" THEN [baseHue |-> 200, saturation |-> 90, glow |-> 140]
    ELSE [baseHue |-> 16, saturation |-> 95, glow |-> 150]

NoFrame == [background |-> "none", width |-> 0, height |-> 0, shapes |-> << >>]

\* a faulty variant: the glow size is stored into the particle
drawParticlesGrowing(cv, particles, th, trail) ==
    [frame |->
        [background |-> IF trail THEN "fade" ELSE "clear",
         width |-> cv.width,
         height |-> cv.height,
         shapes |-> [i \in 1..Len(particles) |->
            [x |-> particles[i].x, y |-> particles[i].y,
             radius |-> particles[i].size,
             glowSize |-> RoundDiv(particles[i].size * 250 * th.glow, 100 * 100),
             baseHue |-> th.baseHue, saturation |-> th.saturation,
             phase |-> particles[i].life,
             hueOffset |-> particles[i].hueOffset]]],
     particles |-> [i \in 1..Len(particles) |->
            [particles[i] EXCEPT
                !.size = RoundDiv(particles[i].size * 250 * th.glow, 100 * 100)]]]

\* the frame drawn on the context of canvas cv, and the pool after the call
drawParticles(cv, particles, th, trail) ==
    [frame |->
        [background |-> IF trail THEN "fade" ELSE "clear",
         width |-> cv.width,
         height |-> cv.height,
         shapes |-> [i \in 1..Len(particles) |->
            [x |-> particles[i].x, y |-> particles[i].y,
             radius |-> particles[i].size,
             glowSize |-> RoundDiv(particles[i].size * 250 * th.glow, 100 * 100),
             baseHue |-> th.baseHue, saturation |-> th.saturation,
             phase |-> particles[i].life,
             hueOffset |-> particles[i].hueOffset]]],
     particles |-> particles]

\* line 83: drawParticles has drawn the frame
DrawnAs(d) ==
    /\ particlesRef' = d.particles
    /\ drawn' = d.frame

\* the draws of the probes of a call of stepParticles made by the loop
LoopProbes == {0, RandDen \div 2}

\* a faulty variant: the step reads the field of the iteration before
FieldOfPreviousTick(latest, previous) ==
    IF previous = NoField THEN latest ELSE previous

\* lines 71-76: edgeFieldRef.current, read after the extraction of lines
\* 59-68 has assigned it
FieldForStep(latest, previous) == latest

\* lines 72-77: stepParticles has mutated the pool and the map
Stepped(r) ==
    /\ particlesRef' = r.particles
    /\ prevPosRef' = r.prevPosMap
    /\ samples' = r.samples

\* a faulty variant: the callback stays pending
cancelNothing(pending, id) == pending

\* cancelAnimationFrame(id), on the pending callbacks (line 100)
cancelAnimationFrame(pending, id) == pending \ {id}

\* requestAnimationFrame(loop) returning id (line 94)
requestAnimationFrame(pending, id) == pending \cup {id}

\* lines 72-83: stepParticles has mutated the pool and the map, and
\* drawParticles has drawn the pool
SteppedAndDrawn(r) ==
    /\ DrawnAs(drawParticles(canvas', r.particles, ThemeOf(theme'), trailEffect'))
    /\ prevPosRef' = r.prevPosMap
    /\ samples' = r.samples

\* The body of loop (lines 55-95) run on pool `pool` with the frame counter
\* at fc: extraction on every second iteration with a mask, stepParticles
\* or driftParticles, drawParticles, and the request of the next frame.
LoopBody(pool, fc, R, pending) ==
    /\ frameCount' = fc + 1
    /\ rafRef' = rafRef + 1
    /\ scheduled' = requestAnimationFrame(pending, rafRef + 1)
    /\ edgeFieldRef' =
            IF maskCanvas' # NoMask /\ edgeUpdateCounter % 2 = 0
            THEN computeEdgeField(maskCanvas', EDGE_THRESHOLD, edgeFieldRef,
                                  smoothMagRef)
            ELSE edgeFieldRef
    /\ smoothMagRef' =
            IF maskCanvas' # NoMask /\ edgeUpdateCounter % 2 = 0
            THEN edgeFieldRef'.mag
            ELSE smoothMagRef
    /\ edgeUpdateCounter' =
            IF maskCanvas' # NoMask THEN edgeUpdateCounter + 1
            ELSE edgeUpdateCounter
    /\ fieldHeap' =
            IF maskCanvas' # NoMask /\ edgeUpdateCounter % 2 = 0
            THEN HeapAfter(fieldHeap, smoothMagRef, edgeFieldRef')
            ELSE fieldHeap
    /\ IF maskCanvas' # NoMask
       THEN IF edgeFieldRef' # NoField
            THEN \E probes \in [1..SampleCount(edgeFieldRef'.w, edgeFieldRef'.h)
                                    -> ProbeDraws(LoopProbes)] :
                 \E draws \in [1..Len(pool)
                         -> StepDraws(BuildSamples(
                                FieldForStep(edgeFieldRef', edgeFieldRef),
                                probes), R)] :
                    SteppedAndDrawn(
                        stepParticles(pool, canvas',
                                      FieldForStep(edgeFieldRef', edgeFieldRef),
                                      prevPosRef, probes, draws))
            ELSE /\ DrawnAs(drawParticles(canvas', pool, ThemeOf(theme'),
                                          trailEffect'))
                 /\ UNCHANGED <<prevPosRef, samples>>
       ELSE /\ \E draws \in [1..Len(pool) -> DriftDraws(R)] :
                    DrawnAs(drawParticles(canvas',
                                          driftParticles(pool, canvas', draws),
                                          ThemeOf(theme'), trailEffect'))
            /\ UNCHANGED <<prevPosRef, samples>>

\* The effect (lines 34-103) after a render with the primed props: the
\* cleanup of the previous run, then, when running, resize, initParticles
\* and the first call of loop.
Effect(cap, seedSet, R) ==
    IF running'
    THEN /\ rafRef < cap
         /\ canvas' = resize(canvas)
         /\ \E seeds \in [1..Count(intensity') -> seedSet] :
                LoopBody(initParticles(Count(intensity'), canvas', seeds,
                                       nextId), 0, R,
                         cancelAnimationFrame(scheduled, rafRef))
         /\ nextId' = nextId + Count(intensity')
         /\ pc' = "effect"
    ELSE /\ scheduled' = cancelAnimationFrame(scheduled, rafRef)
         /\ UNCHANGED <<canvas, rafRef, frameCount, poolVars, fieldVars>>
         /\ pc' = "idle"

\* onReady: setRunning(true)
Ready(cap, seedSet, R) ==
    /\ ~running
    /\ running' = TRUE
    /\ UNCHANGED <<theme, trailEffect, intensity, maskCanvas>>
    /\ Effect(cap, seedSet, R)
    /\ UNCHANGED camVars

\* the parent renders with running false: the cleanup cancels the frame
Stop(cap, seedSet, R) ==
    /\ running
    /\ running' = FALSE
    /\ UNCHANGED <<theme, trailEffect, intensity, maskCanvas>>
    /\ Effect(cap, seedSet, R)
    /\ UNCHANGED camVars

\* the theme select
SetTheme(cap, seedSet, R) ==
    /\ \E t \in Themes \ {theme} : theme' = t
    /\ UNCHANGED <<running, trailEffect, intensity, maskCanvas>>
    /\ Effect(cap, seedSet, R)
    /\ UNCHANGED camVars

\* the trail button
ToggleTrail(cap, seedSet, R) ==
    /\ trailEffect' = ~trailEffect
    /\ UNCHANGED <<running, theme, intensity, maskCanvas>>
    /\ Effect(cap, seedSet, R)
    /\ UNCHANGED camVars

\* the intensity slider
SetIntensity(cap, seedSet, R, counts) ==
    /\ \E n \in counts : intensity' = Intensity(n) /\ intensity' # intensity
    /\ UNCHANGED <<running, theme, trailEffect, maskCanvas>>
    /\ Effect(cap, seedSet, R)
    /\ UNCHANGED camVars

\* onMaskReady: setMaskCanvas(maskCanvas), the canvas still blank
MaskReady(cap, seedSet, R, sizes) ==
    /\ maskCanvas = NoMask
    /\ \E m \in Masks(sizes, {"blank"}) : maskCanvas' = m
    /\ UNCHANGED <<running, theme, trailEffect, intensity>>
    /\ Effect(cap, seedSet, R)
    /\ UNCHANGED camVars

\* The segmentation collaborator draws on the mask canvas (and may size
\* it anew): the same canvas object, so no render and no effect.
DrawMask(sizes, pats) ==
    /\ maskCanvas # NoMask
    /\ \E m \in Masks(sizes, pats) : maskCanvas' = m /\ m # maskCanvas
    /\ pc' = "mask"
    /\ UNCHANGED <<running, theme, trailEffect, intensity, canvas, loopVars,
                   poolVars, fieldVars, camVars>>

\* the animation-frame callback: loop
Loop(cap, R) ==
    /\ rafRef < cap
    /\ UNCHANGED <<propVars, canvas, nextId>>
    /\ \E id \in scheduled :
            LoopBody(particlesRef, frameCount, R, scheduled \ {id})
    /\ pc' = "loop"
    /\ UNCHANGED camVars

(***************************************************************************)
(* The component from its construction on.                                 *)
(***************************************************************************)
LoopMaskSizes == {<<3, 3>>}
LoopMaskPatterns == {"blank", "left"}
LoopSeeds == {Seed(0, 0, 0, RandDen - 1)}
LoopRand == {0}

\* the client sizes the layout gives the canvas element
ClientSizes == {<<20, 20>>, <<30, 20>>}

\* a faulty variant: the resize listener starts the effect over
WindowResizeRestarts(sizes) ==
    /\ running
    /\ rafRef < MaxTicks
    /\ \E sz \in sizes :
            canvas' = resize([canvas EXCEPT !.clientWidth = sz[1],
                                            !.clientHeight = sz[2]])
    /\ \E seeds \in [1..Count(intensity) -> LoopSeeds] :
            particlesRef' = initParticles(Count(intensity), canvas', seeds, nextId)
    /\ nextId' = nextId + Count(intensity)
    /\ pc' = "resize"
    /\ UNCHANGED <<propVars, loopVars, prevPosRef, samples, drawn, fieldVars,
                   camVars>>

\* The window's resize event while the effect is active (the listener of
\* line 47, removed by the cleanup): the layout has given the canvas
\* element a client size and the handler resize (lines 40-45) runs.
WindowResize(sizes) ==
    /\ running
    /\ \E sz \in sizes :
            canvas' = resize([canvas EXCEPT !.clientWidth = sz[1],
                                            !.clientHeight = sz[2]])
    /\ pc' = "resize"
    /\ UNCHANGED <<propVars, loopVars, poolVars, fieldVars, camVars>>

(***************************************************************************)
(* CameraFeed (src/src/components/CameraFeed.jsx, lines 201-410): its      *)
(* state after construction.                                               *)
(***************************************************************************)
NoError == "null"
NoResults == [null |-> TRUE]

CameraConstructed ==
    /\ started = FALSE
    /\ error = NoError
    /\ camPc = "idle"
    /\ isProcessing = FALSE
    /\ camRafRef = 0
    /\ camScheduled = {}
    /\ outstanding = 0
    /\ handled = FALSE
    /\ results = NoResults
    /\ unmounted = FALSE
    /\ camFrames = 0

Constructed ==
    /\ running = FALSE
    /\ theme \in Themes
    /\ trailEffect = TRUE
    /\ maskCanvas = NoMask
    /\ canvas = CanvasInit
    /\ rafRef = 0
    /\ scheduled = {}
    /\ particlesRef = << >>
    /\ edgeFieldRef = NoField
    /\ smoothMagRef = Null
    /\ edgeUpdateCounter = 0
    /\ prevPosRef = << >>
    /\ frameCount = 0
    /\ samples = << >>
    /\ drawn = NoFrame
    /\ fieldHeap = << >>
    /\ nextId = 1
    /\ CameraConstructed
    /\ pc = "init"

Init ==
    /\ Constructed
    /\ intensity = Intensity(1)

Next ==
    \/ Ready(MaxTicks, LoopSeeds, LoopRand)
    \/ SetTheme(MaxTicks, LoopSeeds, LoopRand)
    \/ ToggleTrail(MaxTicks, LoopSeeds, LoopRand)
    \/ SetIntensity(MaxTicks, LoopSeeds, LoopRand, {1, 2})
    \/ MaskReady(MaxTicks, LoopSeeds, LoopRand, LoopMaskSizes)
    \/ DrawMask(LoopMaskSizes, LoopMaskPatterns)
    \/ Loop(MaxTicks, LoopRand)
    \/ WindowResize(ClientSizes)
    \/ Stop(MaxTicks, LoopSeeds, LoopRand)

Spec == Init /\ [][Next]_vars

(***************************************************************************)
(* The loop on a mask large enough for stepParticles to probe it.          *)
(***************************************************************************)
StepMaskSizes == {<<10, 5>>}

NextLoop ==
    \/ Ready(MaxTicks, LoopSeeds, RandEnds)
    \/ MaskReady(MaxTicks, LoopSeeds, RandEnds, StepMaskSizes)
    \/ DrawMask(StepMaskSizes, LoopMaskPatterns)
    \/ Loop(MaxTicks, RandEnds)

SpecLoop == Init /\ [][NextLoop]_vars

(***************************************************************************)
(* The edge-field extractor driven by the loop: the mask canvas of any     *)
(* size and content, redrawn (and resized) between iterations.             *)
(***************************************************************************)
NextField ==
    \/ Ready(MaxFieldTicks, LoopSeeds, LoopRand)
    \/ MaskReady(MaxFieldTicks, LoopSeeds, LoopRand, MaskSizes)
    \/ DrawMask(MaskSizes, MaskPatterns)
    \/ Loop(MaxFieldTicks, LoopRand)

SpecField == Init /\ [][NextField]_vars

(***************************************************************************)
(* The extractor over a long run: the mask shows an edge during the first  *)
(* iterations only and is blank from some iteration on.                    *)
(***************************************************************************)
DecayMaskSizes == {<<3, 3>>}

\* the segmentation draws a subject, within the first two iterations
MaskShowsEdge ==
    /\ edgeUpdateCounter < 2
    /\ DrawMask(DecayMaskSizes, {"left", "corner"})

\* the segmentation draws an empty mask
MaskClears == DrawMask(DecayMaskSizes, {"blank"})

NextDecay ==
    \/ Ready(MaxDecayTicks, LoopSeeds, LoopRand)
    \/ MaskReady(MaxDecayTicks, LoopSeeds, LoopRand, DecayMaskSizes)
    \/ MaskShowsEdge
    \/ MaskClears
    \/ Loop(MaxDecayTicks, LoopRand)

SpecDecay == Init /\ [][NextDecay]_vars

(***************************************************************************)
(* CameraFeed (src/src/components/CameraFeed.jsx, lines 201-410) with the  *)
(* ParticleCanvas it feeds: startCamera, its segmentation handler, its     *)
(* processing loop and the unmount cleanup.  camPc is where startCamera    *)
(* stands: "idle" (not called), "getUserMedia", "play", "initialize" and   *)
(* "send" (suspended at that await), "frame" (the loop waits for its       *)
(* animation frame), "failed" (ended in its catch).                        *)
(***************************************************************************)
MaxCamFrames == 3
CamMaskSize == <<3, 3>>
RawPatterns == {"blank", "left", "dim", "soft"}
CamPatterns == {"blank", "left", "right", "dim", "soft"}
CameraError == "Camera error. Please refresh."

\* what the handler may be called with: no usable results, or a mask
Results == {NoResults} \cup {[segmentationMask |-> p] : p \in RawPatterns}

\* the render (lines 340-393): the overlay holds the button and the error
OverlayShown == ~started
ErrorDisplayed == OverlayShown /\ error # NoError
ButtonAvailable == OverlayShown

\* setError of the catch (line 316); a state update after the unmount is
\* dropped
CatchError ==
    /\ error' = IF unmounted THEN error ELSE CameraError
    /\ camPc' = "failed"

\* the button's onClick: startCamera up to await getUserMedia
StartCamera ==
    /\ ~unmounted
    /\ OverlayShown
    /\ camPc = "idle"
    /\ error' = NoError
    /\ started' = TRUE
    /\ camPc' = "getUserMedia"
    /\ pc' = "camera"
    /\ UNCHANGED <<propVars, canvas, loopVars, poolVars, fieldVars,
                   isProcessing, camRafRef, camScheduled, outstanding,
                   handled, results, unmounted, camFrames>>

\* getUserMedia rejects: the catch
MediaDenied ==
    /\ camPc = "getUserMedia"
    /\ CatchError
    /\ pc' = "camera"
    /\ UNCHANGED <<propVars, canvas, loopVars, poolVars, fieldVars, started,
                   isProcessing, camRafRef, camScheduled, outstanding,
                   handled, results, unmounted, camFrames>>

\* getUserMedia resolves: up to await videoEl.play()
MediaGranted ==
    /\ camPc = "getUserMedia"
    /\ camPc' = "play"
    /\ pc' = "camera"
    /\ UNCHANGED <<propVars, canvas, loopVars, poolVars, fieldVars, started,
                   error, isProcessing, camRafRef, camScheduled, outstanding,
                   handled, results, unmounted, camFrames>>

\* play rejects: the catch
PlayFails ==
    /\ camPc = "play"
    /\ CatchError
    /\ pc' = "camera"
    /\ UNCHANGED <<propVars, canvas, loopVars, poolVars, fieldVars, started,
                   isProcessing, camRafRef, camScheduled, outstanding,
                   handled, results, unmounted, camFrames>>

\* play resolves (lines 234-294): the mask canvas is made and given to the
\* parent blank, onReady turns the particles on (one render of the parent,
\* so one run of the ParticleCanvas effect; after the unmount the parent's
\* state updates are dropped), the segmentation is constructed, or its
\* constructor throws, and startCamera suspends at seg.initialize().
PlayResolves(cap, seedSet, R) ==
    /\ camPc = "play"
    /\ IF unmounted
       THEN /\ UNCHANGED <<propVars, canvas, loopVars, poolVars, fieldVars>>
            /\ pc' = "camera"
       ELSE /\ maskCanvas' \in Masks({CamMaskSize}, {"blank"})
            /\ running' = TRUE
            /\ UNCHANGED <<theme, trailEffect, intensity>>
            /\ Effect(cap, seedSet, R)
    /\ \E constructed \in BOOLEAN :
            IF constructed
            THEN camPc' = "initialize" /\ error' = error
            ELSE CatchError
    /\ UNCHANGED <<started, isProcessing, camRafRef, camScheduled,
                   outstanding, handled, results, unmounted, camFrames>>

\* ctx.drawImage(src, 0, 0, w, h) after the mirroring transform: the red
\* channel the canvas holds at (x, y)
DrawImage(src, mirror, x, y, w, h) ==
    Pixel(src, IF mirror THEN w - 1 - x ELSE x, y, w, h)

\* a faulty variant: only the pixels above the threshold are rewritten
BinaryThresholdOnOnly(v) == IF v > 128 THEN 255 ELSE v

\* the binary threshold of lines 281-286
BinaryThreshold(v) == IF v > 128 THEN 255 ELSE 0

\* canvas m holds, at every pixel, the thresholded drawing of src
HoldsThresholded(m, src, mirror) ==
    \A x \in 0..(m.w - 1) : \A y \in 0..(m.h - 1) :
        Pixel(m.pat, x, y, m.w, m.h)
            = BinaryThreshold(DrawImage(src, mirror, x, y, m.w, m.h))

\* The loop (lines 300-310) from its start to its first suspension or its
\* end, with `pending` the callbacks still requested; ready is
\* videoEl.readyState >= 2.
CamLoopBody(pending) ==
    /\ camFrames' = camFrames + 1
    /\ \E ready \in BOOLEAN :
            IF ~isProcessing /\ ready
            THEN /\ isProcessing' = TRUE
                 /\ outstanding' = outstanding + 1
                 /\ handled' = FALSE
                 /\ camPc' = "send"
                 /\ camScheduled' = pending
                 /\ camRafRef' = camRafRef
            ELSE /\ camRafRef' = camRafRef + 1
                 /\ camScheduled' = requestAnimationFrame(pending, camRafRef + 1)
                 /\ camPc' = "frame"
                 /\ UNCHANGED <<isProcessing, outstanding, handled>>

\* seg.initialize() settles, resolved or rejected alike (lines 293-297):
\* the first call of loop
InitSettles ==
    /\ camPc = "initialize"
    /\ camFrames < MaxCamFrames
    /\ CamLoopBody(camScheduled)
    /\ pc' = "camera"
    /\ UNCHANGED <<propVars, canvas, loopVars, poolVars, fieldVars, started,
                   error, results, unmounted>>

\* the processing loop's animation-frame callback
CamFrame ==
    /\ camFrames < MaxCamFrames
    /\ \E id \in camScheduled : CamLoopBody(camScheduled \ {id})
    /\ pc' = "camera"
    /\ UNCHANGED <<propVars, canvas, loopVars, poolVars, fieldVars, started,
                   error, results, unmounted>>

\* The handler of lines 260-290, called by the segmentation at most once
\* for the send in flight: one callback, run to its end.  mirror is the
\* prop as the closure of startCamera holds it.  The canvas is the one the
\* parent passes to ParticleCanvas, when the parent has taken it.
OnResults ==
    /\ camPc = "send"
    /\ ~handled
    /\ handled' = TRUE
    /\ \E r \in Results :
        /\ results' = r
        /\ IF r = NoResults \/ maskCanvas = NoMask
           THEN maskCanvas' = maskCanvas
           ELSE \E mirror \in BOOLEAN :
                \E m \in Masks({<<maskCanvas.w, maskCanvas.h>>}, CamPatterns) :
                    /\ HoldsThresholded(m, r.segmentationMask, mirror)
                    /\ maskCanvas' = m
    /\ isProcessing' = FALSE
    /\ pc' = "mask"
    /\ UNCHANGED <<running, theme, trailEffect, intensity, canvas, loopVars,
                   poolVars, fieldVars, started, error, camPc, camRafRef,
                   camScheduled, outstanding, unmounted, camFrames>>

\* seg.send settles (lines 303-309): a rejection clears isProcessing, and
\* the loop requests its next frame
SendSettles ==
    /\ camPc = "send"
    /\ \E rejected \in BOOLEAN :
            isProcessing' = IF rejected THEN FALSE ELSE isProcessing
    /\ outstanding' = outstanding - 1
    /\ camRafRef' = camRafRef + 1
    /\ camScheduled' = requestAnimationFrame(camScheduled, camRafRef + 1)
    /\ camPc' = "frame"
    /\ pc' = "camera"
    /\ UNCHANGED <<propVars, canvas, loopVars, poolVars, fieldVars, started,
                   error, handled, results, unmounted, camFrames>>

\* The page goes away: the cleanup of CameraFeed (lines 320-333) and the
\* cleanup of the ParticleCanvas effect (part_002, lines 98-101).
Unmount ==
    /\ ~unmounted
    /\ unmounted' = TRUE
    /\ camScheduled' = IF camRafRef # 0
                       THEN cancelAnimationFrame(camScheduled, camRafRef)
                       ELSE camScheduled
    /\ scheduled' = cancelAnimationFrame(scheduled, rafRef)
    /\ pc' = "unmount"
    /\ UNCHANGED <<propVars, canvas, rafRef, frameCount, poolVars, fieldVars,
                   started, error, camPc, isProcessing, camRafRef,
                   outstanding, handled, results, camFrames>>

NextCamera ==
    \/ StartCamera
    \/ MediaDenied
    \/ MediaGranted
    \/ PlayFails
    \/ PlayResolves(MaxTicks, LoopSeeds, LoopRand)
    \/ InitSettles
    \/ CamFrame
    \/ OnResults
    \/ SendSettles
    \/ Unmount
    \/ Loop(MaxTicks, LoopRand)

SpecCamera == Init /\ [][NextCamera]_vars

(***************************************************************************)
(* stepParticles and driftParticles as functions, called in any order on   *)
(* a pool made by initParticles with a field made by computeEdgeField.     *)
(***************************************************************************)
\* 10 x 5: one probe per call; 3 x 3: none
ParticleMasks ==
    Masks({<<10, 5>>}, {"blank", "left"}) \cup Masks({<<3, 3>>}, {"left"})

InitParticles ==
    /\ running = TRUE
    /\ theme \in {"plasma"}
    /\ trailEffect = TRUE
    /\ intensity = Intensity(1)
    /\ maskCanvas \in ParticleMasks
    /\ canvas = resize(CanvasInit)
    /\ rafRef = 0
    /\ scheduled = {}
    /\ \E seeds \in [1..1 -> Seeds] :
            particlesRef = initParticles(1, canvas, seeds, 1)
    /\ edgeFieldRef = computeEdgeField(maskCanvas, EDGE_THRESHOLD, NoField, Null)
    /\ smoothMagRef = edgeFieldRef.mag
    /\ edgeUpdateCounter = 1
    /\ fieldHeap = <<edgeFieldRef>>
    /\ drawn = NoFrame
    /\ prevPosRef = << >>
    /\ frameCount = 0
    /\ samples = << >>
    /\ nextId = 2
    /\ CameraConstructed
    /\ pc = "init"

\* stepParticles(particlesRef.current, canvas, edgeFieldRef.current,
\*               prevPosRef.current)
StepCall(cap, probeSet, R) ==
    /\ frameCount < cap
    /\ frameCount' = frameCount + 1
    /\ \E probes \in [1..SampleCount(edgeFieldRef.w, edgeFieldRef.h)
                            -> probeSet] :
       \E draws \in [1..Len(particlesRef)
                        -> StepDraws(BuildSamples(edgeFieldRef, probes), R)] :
            Stepped(stepParticles(particlesRef, canvas, edgeFieldRef,
                                  prevPosRef, probes, draws))
    /\ pc' = "step"
    /\ UNCHANGED <<propVars, canvas, rafRef, scheduled, drawn, nextId,
                   fieldVars, camVars>>

\* driftParticles(particlesRef.current, canvas)
DriftCall(cap, R) ==
    /\ frameCount < cap
    /\ frameCount' = frameCount + 1
    /\ \E draws \in [1..Len(particlesRef) -> DriftDraws(R)] :
            particlesRef' = driftParticles(particlesRef, canvas, draws)
    /\ pc' = "drift"
    /\ UNCHANGED <<propVars, canvas, rafRef, scheduled, prevPosRef, samples,
                   drawn, nextId, fieldVars, camVars>>

NextParticles ==
    \/ StepCall(MaxTicks, ProbeDraws(Rand), RandEnds)
    \/ DriftCall(MaxTicks, Rand)

SpecParticles == InitParticles /\ [][NextParticles]_vars

(***************************************************************************)
(* stepParticles on a pool made for a large canvas, with the window        *)
(* resized between the calls.                                              *)
(***************************************************************************)
WrapClientSizes == {<<20, 20>>, <<45, 40>>}
WrapSeeds ==
    {Seed(RandDen - 1, 0, 0, 0), Seed(RandDen - 1, RandDen - 1, 0, 0)}

InitWide ==
    /\ running = TRUE
    /\ theme \in {"plasma"}
    /\ trailEffect = TRUE
    /\ intensity = Intensity(1)
    /\ maskCanvas \in ParticleMasks
    /\ canvas = resize([CanvasInit EXCEPT !.clientWidth = 45,
                                         !.clientHeight = 40])
    /\ rafRef = 0
    /\ scheduled = {}
    /\ \E seeds \in [1..1 -> WrapSeeds] :
            particlesRef = initParticles(1, canvas, seeds, 1)
    /\ edgeFieldRef = computeEdgeField(maskCanvas, EDGE_THRESHOLD, NoField, Null)
    /\ smoothMagRef = edgeFieldRef.mag
    /\ edgeUpdateCounter = 1
    /\ fieldHeap = <<edgeFieldRef>>
    /\ drawn = NoFrame
    /\ prevPosRef = << >>
    /\ frameCount = 0
    /\ samples = << >>
    /\ nextId = 2
    /\ CameraConstructed
    /\ pc = "init"

NextWrap ==
    \/ StepCall(MaxTicks, ProbeDraws(Rand), RandEnds)
    \/ WindowResize(WrapClientSizes)

SpecWrap == InitWide /\ [][NextWrap]_vars

(***************************************************************************)
(* stepParticles on a field of 10 x 10 cells: two probes per call.         *)
(***************************************************************************)
\* the draws of a probe: cell (0, 0) on the border, and the cells (4, 5) and
\* (5, 2) on the edge of the mask
SampleProbes == {<<0, 0>>, <<40, 50>>, <<50, 20>>}

InitSamples ==
    /\ running = TRUE
    /\ theme \in {"plasma"}
    /\ trailEffect = TRUE
    /\ intensity = Intensity(1)
    /\ maskCanvas \in Masks({<<10, 10>>}, {"left"})
    /\ canvas = resize(CanvasInit)
    /\ rafRef = 0
    /\ scheduled = {}
    /\ \E seeds \in [1..1 -> Seeds] :
            particlesRef = initParticles(1, canvas, seeds, 1)
    /\ edgeFieldRef = computeEdgeField(maskCanvas, EDGE_THRESHOLD, NoField, Null)
    /\ smoothMagRef = edgeFieldRef.mag
    /\ edgeUpdateCounter = 1
    /\ fieldHeap = <<edgeFieldRef>>
    /\ drawn = NoFrame
    /\ prevPosRef = << >>
    /\ frameCount = 0
    /\ samples = << >>
    /\ nextId = 2
    /\ CameraConstructed
    /\ pc = "init"

\* two calls: the second starts from a particle the first has moved
NextSamples == StepCall(MaxTicks - 1, SampleProbes, RandEnds)

SpecSamples == InitSamples /\ [][NextSamples]_vars

(***************************************************************************)
(* Properties of computeEdgeField, under SpecField.                        *)
(***************************************************************************)
\* the state follows a loop iteration that called computeEdgeField on the
\* mask canvas as it is now
JustExtracted ==
    /\ pc \in {"effect", "loop"}
    /\ maskCanvas # NoMask
    /\ edgeUpdateCounter % 2 = 1

\* this step is a loop iteration that calls computeEdgeField
ExtractionStep ==
    /\ edgeUpdateCounter % 2 = 0
    /\ edgeUpdateCounter' = edgeUpdateCounter + 1

InteriorCells(w, h) == (1..(w - 2)) \X (1..(h - 2))
BorderCells(w, h) == ((0..(w - 1)) \X (0..(h - 1))) \ InteriorCells(w, h)

\* the raw thresholded magnitude of cell c of mask mc
Raw(mc, c) ==
    Thresholded(SobelX(getImageData(mc), mc.w, mc.h, c[1], c[2]),
                SobelY(getImageData(mc), mc.w, mc.h, c[1], c[2]),
                EDGE_THRESHOLD)

\* C1: every field computeEdgeField returns has mag, gx and gy of length
\* exactly w*h, and cell (x, y) is stored at index y*w + x: after an
\* extraction the gradient at y*w + x is the Sobel pair of cell (x, y) of the
\* mask, and 0 where no cell is computed.
C1_FieldLayout ==
    edgeFieldRef # NoField =>
        /\ DOMAIN edgeFieldRef.mag = 0..(edgeFieldRef.w * edgeFieldRef.h - 1)
        /\ DOMAIN edgeFieldRef.gx = 0..(edgeFieldRef.w * edgeFieldRef.h - 1)
        /\ DOMAIN edgeFieldRef.gy = 0..(edgeFieldRef.w * edgeFieldRef.h - 1)
        /\ JustExtracted =>
              /\ edgeFieldRef.w = maskCanvas.w
              /\ edgeFieldRef.h = maskCanvas.h
              /\ \A c \in InteriorCells(maskCanvas.w, maskCanvas.h) :
                    /\ edgeFieldRef.gx[c[2] * maskCanvas.w + c[1]]
                          = SobelX(getImageData(maskCanvas), maskCanvas.w,
                                   maskCanvas.h, c[1], c[2])
                    /\ edgeFieldRef.gy[c[2] * maskCanvas.w + c[1]]
                          = SobelY(getImageData(maskCanvas), maskCanvas.w,
                                   maskCanvas.h, c[1], c[2])
              /\ \A c \in BorderCells(maskCanvas.w, maskCanvas.h) :
                    /\ edgeFieldRef.gx[c[2] * maskCanvas.w + c[1]] = 0
                    /\ edgeFieldRef.gy[c[2] * maskCanvas.w + c[1]] = 0

\* a 3 x 4 field with an edge at cell (1, 2), extracted with a history
C1_Witness ==
    /\ JustExtracted
    /\ edgeUpdateCounter >= 3
    /\ edgeFieldRef.w = 3
    /\ edgeFieldRef.h = 4
    /\ edgeFieldRef.gx[7] # 0

\* C2: in every field, after any sequence of extractions, with or without
\* smoothing, the magnitude of every border cell (x = 0, x = w-1, y = 0 or
\* y = h-1) is 0.
C2_BorderZero ==
    edgeFieldRef # NoField =>
        \A c \in BorderCells(edgeFieldRef.w, edgeFieldRef.h) :
            /\ edgeFieldRef.mag[c[2] * edgeFieldRef.w + c[1]] = 0
            /\ smoothMagRef[c[2] * edgeFieldRef.w + c[1]] = 0

\* a 4 x 3 field with two edge cells, extracted with a history
C2_Witness ==
    /\ JustExtracted
    /\ edgeUpdateCounter >= 3
    /\ edgeFieldRef.w = 4
    /\ edgeFieldRef.h = 3
    /\ edgeFieldRef.edgeCount = 2
    /\ edgeFieldRef.mag[5] > 0

\* the history the extraction of this step reads was made for the
\* dimensions of the mask it reads
SameDimensions ==
    /\ edgeFieldRef # NoField
    /\ edgeFieldRef.w = maskCanvas'.w
    /\ edgeFieldRef.h = maskCanvas'.h

\* C6: on an extraction that smooths with the previous result's mag, every
\* cell's distance to its raw thresholded value does not increase, and a
\* cell that equals its raw value keeps it; on a static mask the raw value
\* is the same at every extraction, so the smoothed value approaches it
\* and rests on it.
C6_SmoothingApproachesRaw ==
    [][(ExtractionStep /\ SameDimensions) =>
            \A c \in InteriorCells(maskCanvas'.w, maskCanvas'.h) :
                LET idx == c[2] * maskCanvas'.w + c[1]
                    raw == Raw(maskCanvas', c)
                IN  /\ Abs(edgeFieldRef'.mag[idx] - raw)
                          <= Abs(smoothMagRef[idx] - raw)
                    /\ smoothMagRef[idx] = raw
                          => edgeFieldRef'.mag[idx] = raw]_vars

\* the 3 x 3 mask "left" after a blank extraction and two extractions of
\* the same content: the centre cell has moved twice toward its raw value
C6_Witness ==
    /\ JustExtracted
    /\ maskCanvas = [w |-> 3, h |-> 3, pat |-> "left"]
    /\ edgeUpdateCounter = 5
    /\ edgeFieldRef.mag[4] < Raw(maskCanvas, <<1, 1>>)
    /\ 100 * edgeFieldRef.mag[4] > Blend(0, Raw(maskCanvas, <<1, 1>>))

\* C9: when the history was made for a field of other dimensions than the
\* mask's, equal product included, it is ignored: every magnitude is the
\* raw thresholded value of the mask.
C9_StaleHistoryIgnored ==
    [][(ExtractionStep /\ edgeFieldRef # NoField /\ ~SameDimensions) =>
            \A c \in InteriorCells(maskCanvas'.w, maskCanvas'.h) :
                edgeFieldRef'.mag[c[2] * maskCanvas'.w + c[1]]
                    = Raw(maskCanvas', c)]_vars

(***************************************************************************)
(* Properties of stepParticles and driftParticles, under SpecParticles.    *)
(***************************************************************************)
Pool == {particlesRef[i] : i \in 1..Len(particlesRef)}

\* every value Math.random() takes in the model
AllRand == 0..(RandDen - 1)

\* C3: for every particle, after initParticles and after every call of
\* stepParticles or driftParticles, in any order, 0 <= life < 1.
C3_LifeInUnitInterval ==
    \A p \in Pool : 0 <= p.life /\ p.life < LifeScale

\* C4: for every particle, after initParticles and after every call of
\* stepParticles or driftParticles, size > 0: neither the speed boost nor
\* the relaxation toward baseSize makes it zero or negative.
C4_SizePositive ==
    \A p \in Pool : p.size > 0

\* stepParticles has just boosted a particle's size beyond what
\* initParticles or the relaxation can give
C4_Witness ==
    /\ pc = "step"
    /\ \E p \in Pool :
            p.size > (SIZE_MAX * Scale) \div 100 /\ p.size > p.baseSize

\* C5: after every call of driftParticles each particle's x lies in
\* [-margin, W + margin] and y in [-margin, H + margin], with the margin
\* of the drift wrap, 0.
C5_DriftInBounds ==
    pc = "drift" =>
        \A p \in Pool :
            /\ 0 <= p.x /\ p.x <= canvas.clientWidth * Scale
            /\ 0 <= p.y /\ p.y <= canvas.clientHeight * Scale

\* driftParticles has just wrapped a particle that left on the right
C5_Witness ==
    /\ pc = "drift"
    /\ \E p \in Pool : p.x = 0 /\ p.vx > 0

\* C7: with a field of edgeCount 0, stepParticles gives every particle the
\* update driftParticles gives it (random acceleration, damping by 0.95,
\* wrap at the bounds, life + 0.01) for some pair of draws.
C7_EdgeFreeStepIsDrift ==
    [][(pc' = "step" /\ frameCount' = frameCount + 1
            /\ edgeFieldRef.edgeCount = 0) =>
            /\ Len(particlesRef') = Len(particlesRef)
            /\ \A i \in 1..Len(particlesRef) :
                    \E d \in DriftDraws(AllRand) :
                        particlesRef'[i]
                            = DriftOne(particlesRef[i], d, canvas.clientWidth,
                                       canvas.clientHeight)]_vars

\* C8: on a call of stepParticles with edgeCount > 0 and an empty sample
\* pool every particle is accelerated: a particle at rest does not stay at
\* rest where it was.
C8_EmptyPoolAccelerates ==
    [][(pc' = "step" /\ frameCount' = frameCount + 1
            /\ edgeFieldRef.edgeCount > 0 /\ samples' = << >>) =>
            \A i \in 1..Len(particlesRef) :
                (particlesRef[i].vx = 0 /\ particlesRef[i].vy = 0) =>
                    \/ particlesRef'[i].vx # 0
                    \/ particlesRef'[i].vy # 0
                    \/ particlesRef'[i].x # particlesRef[i].x
                    \/ particlesRef'[i].y # particlesRef[i].y]_vars

(***************************************************************************)
(* Properties of the component, under Spec.                                *)
(***************************************************************************)
\* what no call of stepParticles or driftParticles changes of a particle
Identity(p) == [id |-> p.id, baseSize |-> p.baseSize, hueOffset |-> p.hueOffset]

\* C10: while the loop runs, a change of theme or of the trail flag with
\* the intensity unchanged leaves the pool intact: the same particles
\* continue.
C10_ThemeChangeKeepsPool ==
    [][(running /\ running' /\ intensity' = intensity
            /\ (theme' # theme \/ trailEffect' # trailEffect)) =>
            /\ Len(particlesRef') = Len(particlesRef)
            /\ \A i \in 1..Len(particlesRef) :
                    Identity(particlesRef'[i]) = Identity(particlesRef[i])]_vars

\* C11: a resize notification while the loop runs changes the drawing
\* surface only: the pool and every particle in it, the previous-position
\* association, the cached field and the smoothing history are unchanged.
C11_ResizeKeepsSimulation ==
    [][pc' = "resize" =>
            /\ particlesRef' = particlesRef
            /\ prevPosRef' = prevPosRef
            /\ edgeFieldRef' = edgeFieldRef
            /\ smoothMagRef' = smoothMagRef
            /\ edgeUpdateCounter' = edgeUpdateCounter]_vars

\* the surface has been resized to 30 x 20 with a pool and a field present
C11_Witness ==
    /\ pc = "resize"
    /\ canvas.width = 30
    /\ Len(particlesRef) > 0
    /\ edgeFieldRef # NoField

\* the object identities of the pool, in order
Ids(particles) == [i \in 1..Len(particles) |-> particles[i].id]

\* C12: within a run the pool length is fixed: it is
\* floor(BASE_PARTICLE_COUNT * intensity * deviceDiscount) after the
\* initialization, and no loop iteration (stepParticles, driftParticles,
\* drawParticles) adds, removes or replaces a particle.
C12_PoolLengthFixed ==
    /\ [](running =>
            Len(particlesRef)
                = (BASE_PARTICLE_COUNT * intensity.num
                        * (IF isMobile THEN 6 ELSE 10))
                    \div (intensity.den * 10))
    /\ [][pc' = "loop" => Ids(particlesRef') = Ids(particlesRef)]_vars

\* the second loop iteration of a run on a pool of two particles
C12_Witness ==
    /\ pc = "loop"
    /\ frameCount >= 2
    /\ Len(particlesRef) = 2

(***************************************************************************)
(* Properties of the loop, under SpecLoop.                                 *)
(***************************************************************************)
\* the pools a loop iteration of this step may start from: the pool of the
\* run, or the one the effect has just made
PoolsBefore ==
    IF pc' = "loop" THEN {particlesRef}
    ELSE {initParticles(Count(intensity'), canvas', seeds, nextId) :
            seeds \in [1..Count(intensity') -> LoopSeeds]}

\* the pool after this step is pool after one call of stepParticles
\* against field, with sample pool smp and draws from R
SteppedFrom(pool, field, smp, R) ==
    \E draws \in [1..Len(pool) -> StepDraws(smp, R)] :
        particlesRef' = StepAll(pool, canvas', field, prevPosRef, smp, draws)

\* C13: with the field recomputed on every second iteration, every
\* iteration with a mask present advances the pool by exactly one call of
\* stepParticles, against the field of the most recent extraction.
C13_StepEveryTick ==
    [][(pc' \in {"loop", "effect"} /\ maskCanvas' # NoMask) =>
            /\ edgeFieldRef' =
                    IF edgeUpdateCounter % 2 = 0
                    THEN computeEdgeField(maskCanvas', EDGE_THRESHOLD,
                                          edgeFieldRef, smoothMagRef)
                    ELSE edgeFieldRef
            /\ \E pool \in PoolsBefore :
               \E probes \in [1..SampleCount(edgeFieldRef'.w, edgeFieldRef'.h)
                                    -> ProbeDraws(LoopProbes)] :
                    SteppedFrom(pool, edgeFieldRef',
                                BuildSamples(edgeFieldRef', probes), RandEnds)]_vars

\* an iteration without extraction has stepped the pool toward a sample of
\* the cached field
C13_Witness ==
    /\ pc = "loop"
    /\ edgeUpdateCounter > 0
    /\ edgeUpdateCounter % 2 = 0
    /\ Len(samples) > 0
    /\ Len(particlesRef) > 0

(***************************************************************************)
(* Further properties of the component, under Spec.                        *)
(***************************************************************************)
\* C14: a run that starts after an earlier one was stopped begins fresh:
\* after its first loop iteration the previous-position association holds
\* no particle of an earlier pool, and the cached field, the smoothing
\* history and the decimation counter are what one iteration makes of
\* their initial values.
C14_RestartIsFresh ==
    pc = "effect" =>
        /\ DOMAIN prevPosRef \subseteq {particlesRef[i].id : i \in 1..Len(particlesRef)}
        /\ maskCanvas = NoMask =>
                /\ edgeFieldRef = NoField
                /\ smoothMagRef = Null
                /\ edgeUpdateCounter = 0
        /\ maskCanvas # NoMask =>
                /\ edgeFieldRef
                        = computeEdgeField(maskCanvas, EDGE_THRESHOLD, NoField, Null)
                /\ smoothMagRef = edgeFieldRef.mag
                /\ edgeUpdateCounter = 1

\* C15: a field object that computeEdgeField has returned is never written
\* again: no later loop iteration (stepParticles, drawParticles, or a
\* computeEdgeField call that gets its mag as history) changes its mag, gx,
\* gy, w, h or edgeCount.
C15_FieldNeverMutated ==
    [][/\ Len(fieldHeap') >= Len(fieldHeap)
       /\ \A i \in 1..Len(fieldHeap) : fieldHeap'[i] = fieldHeap[i]]_vars

\* a third field was made with the mag of the second, which has edges, as
\* its history
C15_Witness ==
    /\ JustExtracted
    /\ Len(fieldHeap) >= 3
    /\ fieldHeap[2].edgeCount > 0
    /\ fieldHeap[3].mag # fieldHeap[2].mag
    /\ Length(fieldHeap[3].mag) = Length(fieldHeap[2].mag)

\* C16: drawing a frame changes no simulation state.  drawParticles is given
\* the context, the pool, the theme and the trail flag only, so the field,
\* the smoothing history and the position map are out of its reach; and the
\* pool it leaves behind is, for every pool of a running component, under
\* every theme and either trail flag, the pool it was given, particle by
\* particle and field by field.
C16_DrawKeepsSimulation ==
    (running /\ pc \in {"effect", "loop"}) =>
        /\ drawParticles(canvas, particlesRef, ThemeOf(theme),
                         trailEffect).particles = particlesRef
        /\ drawn = drawParticles(canvas, particlesRef, ThemeOf(theme),
                                 trailEffect).frame

\* a frame of two particles was drawn without trail under the ember theme,
\* after a tick of stepParticles
C16_Witness ==
    /\ pc = "loop"
    /\ running
    /\ theme = "ember"
    /\ ~trailEffect
    /\ maskCanvas # NoMask
    /\ Len(drawn.shapes) = 2
    /\ drawn.background = "clear"
    /\ drawn.shapes[1].glowSize > drawn.shapes[1].radius

\* the ranges of the attributes of a particle made for canvas cv
InRanges(q, cv) ==
    /\ 0 <= q.x /\ q.x <= cv.clientWidth * Scale
    /\ 0 <= q.y /\ q.y <= cv.clientHeight * Scale
    /\ SIZE_MIN * Scale <= 100 * q.size /\ 100 * q.size <= SIZE_MAX * Scale
    /\ SIZE_MIN * Scale <= 100 * q.baseSize
    /\ 100 * q.baseSize <= SIZE_MAX * Scale
    /\ 0 <= q.life /\ q.life < LifeScale
    /\ -10 * Scale <= q.hueOffset /\ q.hueOffset <= 10 * Scale

\* initParticles(count, cv) with draws seeds made count particles in range
InitContract(count, cv, seeds) ==
    /\ Len(initParticles(count, cv, seeds, 1)) = count
    /\ \A i \in 1..count : InRanges(initParticles(count, cv, seeds, 1)[i], cv)

\* C17: the pool initParticles returns has exactly count particles, each
\* with 0 <= x <= W, 0 <= y <= H, size and baseSize in [SIZE_MIN, SIZE_MAX],
\* life in [0, 1) and hueOffset in [-10, 10]; and a second initialization
\* with the same count and bounds, whatever it draws, gives a pool of the
\* same length within the same ranges (here also for counts 0 and 2).
C17_InitParticlesContract ==
    pc = "init" =>
        /\ Len(particlesRef) = Count(intensity)
        /\ \A i \in 1..Len(particlesRef) : InRanges(particlesRef[i], canvas)
        /\ \A seeds \in [1..Len(particlesRef) -> Seeds] :
                InitContract(Len(particlesRef), canvas, seeds)
        /\ InitContract(0, canvas, << >>)
        /\ \A seeds \in [1..2 -> Seeds] : InitContract(2, canvas, seeds)

\* a pool just made from the draws at the upper end: x, y and size just
\* under their upper bounds, baseSize and life at their lower bounds
C17_Witness ==
    /\ CameraConstructed
    /\ pc = "init"
    /\ Len(particlesRef) = 1
    /\ particlesRef[1].x > (canvas.clientWidth - 1) * Scale
    /\ 100 * particlesRef[1].size > (SIZE_MAX - 2) * Scale
    /\ 100 * particlesRef[1].baseSize = SIZE_MIN * Scale
    /\ particlesRef[1].life = 0
    /\ particlesRef[1].hueOffset > 9 * Scale

\* the attraction stepParticles adds to particle q when sample s is chosen
AttractionToward(q, s) ==
    Attraction(q, Best(q, <<s>>, <<0>>, canvas.clientWidth,
                       canvas.clientHeight, edgeFieldRef.w, edgeFieldRef.h))

\* the squared distance from particle q to the target of sample s
Distance2(q, s) ==
    LET b == Best(q, <<s>>, <<0>>, canvas.clientWidth, canvas.clientHeight,
                  edgeFieldRef.w, edgeFieldRef.h)
    IN  (b.tx - q.x) * (b.tx - q.x) + (b.ty - q.y) * (b.ty - q.y)

\* C18: on a call of stepParticles, whichever sample of the pool is chosen
\* for a particle, the attraction added to its velocity is no longer than
\* STICK_FORCE (to one velocity unit of rounding), and it is zero when the
\* particle is within the dead-zone distance of the sample.
C18_AttractionBounded ==
    [][(pc' = "step" /\ frameCount' = frameCount + 1) =>
            \A i \in 1..Len(particlesRef) :
            \A j \in 1..Len(samples') :
                /\ 100 * 100 * (AttractionToward(particlesRef[i], samples'[j]).vx
                                * AttractionToward(particlesRef[i], samples'[j]).vx
                              + AttractionToward(particlesRef[i], samples'[j]).vy
                                * AttractionToward(particlesRef[i], samples'[j]).vy)
                        <= (STICK_FORCE * Scale + 100) * (STICK_FORCE * Scale + 100)
                /\ Distance2(particlesRef[i], samples'[j]) <= Scale * Scale =>
                        /\ AttractionToward(particlesRef[i], samples'[j]).vx = 0
                        /\ AttractionToward(particlesRef[i], samples'[j]).vy = 0]_vars

\* particle q of the pool a call of stepParticles starts from: oldPos is
\* the position q has, q2 (the particle after the call) has the size the
\* sizing rule gives for the distance q2's velocity carried it, and the
\* association holds q2's position afterwards
SpeedIsDistanceMoved(q, q2) ==
    /\ q2.id = q.id
    /\ OldPos(prevPosRef, q) = [x |-> q.x, y |-> q.y]
    /\ q2.size = SizeAfter(q.size, q.baseSize, q2.vx * q2.vx + q2.vy * q2.vy)
    /\ q2.id \in DOMAIN prevPosRef'
    /\ prevPosRef'[q2.id] = [x |-> q2.x, y |-> q2.y]

Damped(v, factor) == RoundDiv(v * factor, 100)

\* q2 has the velocity a damped once by factor
DampedOnce(q2, a, factor) ==
    /\ q2.vx = Damped(a.vx, factor)
    /\ q2.vy = Damped(a.vy, factor)

\* stepParticles made q2 of q: the velocity a damped once by DRAG, then
\* added to the position
StepDampedThenMoved(q, q2, a) ==
    /\ DampedOnce(q2, a, DRAG)
    /\ q2.x = StepWrap(q.x + q2.vx, canvas.clientWidth)
    /\ q2.y = StepWrap(q.y + q2.vy, canvas.clientHeight)

\* driftParticles made q2 of q: the velocity a damped once by 0.95, then
\* added to the position
DriftDampedThenMoved(q, q2, a) ==
    /\ DampedOnce(q2, a, 95)
    /\ q2.x = DriftWrap(q.x + q2.vx, canvas.clientWidth)
    /\ q2.y = DriftWrap(q.y + q2.vy, canvas.clientHeight)

\* C20: on every tick, for every particle, the velocity is multiplied by
\* a damping factor below 1 exactly once, after the tick's acceleration
\* and before the position is integrated: by DRAG in stepParticles, with
\* a chosen sample and with an empty sample pool alike (where the damped
\* velocity is the old one times DRAG), and by the drift's factor 0.95 in
\* driftParticles.
C20_DragOncePerTick ==
    /\ [](DRAG < 100)
    /\ [][(pc' = "step" /\ frameCount' = frameCount + 1) =>
            \A i \in 1..Len(particlesRef) :
                /\ \E d \in StepDraws(samples', Rand) :
                        StepDampedThenMoved(particlesRef[i], particlesRef'[i],
                            StepAccel(particlesRef[i], edgeFieldRef, samples', d,
                                      canvas.clientWidth, canvas.clientHeight))
                /\ samples' = << >> =>
                        StepDampedThenMoved(particlesRef[i], particlesRef'[i],
                            [vx |-> particlesRef[i].vx, vy |-> particlesRef[i].vy])]_vars
    /\ [][(pc' = "drift" /\ frameCount' = frameCount + 1) =>
            \A i \in 1..Len(particlesRef) :
                \E d \in DriftDraws(Rand) :
                    DriftDampedThenMoved(particlesRef[i], particlesRef'[i],
                        [vx |-> particlesRef[i].vx + Centered(d.ax, 10, Scale),
                         vy |-> particlesRef[i].vy + Centered(d.ay, 10, Scale)])]_vars

\* a second call of stepParticles has pulled a moving particle toward a
\* sample and damped it
C20_Witness ==
    /\ pc = "step"
    /\ frameCount >= 2
    /\ Len(samples) > 0
    /\ \E q \in Pool : q.vx # 0 /\ q.vy # 0

\* coordinate x2 is what the wrap of stepParticles makes of the integrated
\* coordinate xi on an axis of length bound
WrappedWithMargin(xi, x2, bound) ==
    /\ xi > (bound + 10) * Scale => x2 = -10 * Scale
    /\ xi < -10 * Scale => x2 = (bound + 10) * Scale
    /\ (-10 * Scale <= xi /\ xi <= (bound + 10) * Scale) => x2 = xi
    /\ -10 * Scale <= x2
    /\ x2 <= (bound + 10) * Scale

\* C21: in stepParticles a coordinate that is beyond bound + margin after
\* the integration is set to -margin, one below -margin to bound + margin,
\* so after the call every coordinate lies in [-margin, bound + margin]
\* (margin 10), also for a particle the window's resize has left outside.
C21_StepWrapsWithMargin ==
    [][(pc' = "step" /\ frameCount' = frameCount + 1) =>
            \A i \in 1..Len(particlesRef) :
                /\ WrappedWithMargin(particlesRef[i].x + particlesRef'[i].vx,
                                     particlesRef'[i].x, canvas.clientWidth)
                /\ WrappedWithMargin(particlesRef[i].y + particlesRef'[i].vy,
                                     particlesRef'[i].y, canvas.clientHeight)]_vars

\* a particle that had re-entered at -margin has left below it and
\* re-entered at bound + margin
C21_Witness ==
    /\ pc = "step"
    /\ frameCount >= 2
    /\ \E q \in Pool : q.x = (canvas.clientWidth + 10) * Scale /\ q.vx < 0

\* the indices of the cells of field f whose magnitude is not zero
NonZeroCells(f) == {i \in DOMAIN f.mag : f.mag[i] # 0}

\* C22: in every field computeEdgeField returns, with or without a
\* smoothing history, edgeCount is the number of cells of mag that are not
\* zero; so edgeCount is 0 exactly when no cell has a magnitude above 0,
\* the condition for entering the sample pool.
C22_EdgeCountCountsNonZero ==
    JustExtracted =>
        /\ edgeFieldRef.edgeCount = Cardinality(NonZeroCells(edgeFieldRef))
        /\ edgeFieldRef.edgeCount = 0
                <=> ~(\E i \in DOMAIN edgeFieldRef.mag : edgeFieldRef.mag[i] > 0)

\* an extraction with history has returned a field with an edge cell and
\* an interior cell without edge
C22_Witness ==
    /\ JustExtracted
    /\ Len(fieldHeap) >= 2
    /\ Length(fieldHeap[Len(fieldHeap) - 1].mag) = Length(edgeFieldRef.mag)
    /\ edgeFieldRef.edgeCount > 0
    /\ \E c \in InteriorCells(edgeFieldRef.w, edgeFieldRef.h) :
            edgeFieldRef.mag[Index(c[1], c[2], edgeFieldRef.w)] = 0

\* s is a cell of field f with a magnitude above 0, inside the arrays
SampleOfField(s, f) ==
    /\ s.x \in 0..(f.w - 1)
    /\ s.y \in 0..(f.h - 1)
    /\ s.idx = s.y * f.w + s.x
    /\ s.idx \in DOMAIN f.mag
    /\ s.idx \in DOMAIN f.gx
    /\ s.idx \in DOMAIN f.gy
    /\ f.mag[s.idx] > 0
    /\ s.strength = f.mag[s.idx]

\* the sample pool's entry that draw k picks
Picked(smp, k) == smp[RandomIndex(k, Len(smp)) + 1]

\* best is, among the samples the picks draw from smp, one at the least
\* squared distance from q
NearestOfPicked(q, best, smp, picks) ==
    /\ \A k \in DOMAIN picks : best.d2 <= Distance2(q, Picked(smp, picks[k]))
    /\ \E k \in DOMAIN picks :
            /\ best.idx = Picked(smp, picks[k]).idx
            /\ best.strength = Picked(smp, picks[k]).strength
            /\ best.d2 = Distance2(q, Picked(smp, picks[k]))

\* q became q2 by steering toward best
SteeredToward(q, q2, best, kj) ==
    DampedOnce(q2, Accelerated(q, edgeFieldRef, best, kj), DRAG)

\* C23: on a call of stepParticles every sample of the pool is a cell of
\* the current field with magnitude above 0 and an index inside the field's
\* arrays; whatever samples are drawn for a particle, the one kept is among
\* them and none of them is nearer to the particle (squared distance in
\* display space); and the particle is steered toward the sample kept for
\* some draws.
C23_NearestOfDrawnSamples ==
    [][(pc' = "step" /\ frameCount' = frameCount + 1) =>
            /\ \A j \in 1..Len(samples') :
                    SampleOfField(samples'[j], edgeFieldRef)
            /\ Len(samples') > 0 =>
                    \A i \in 1..Len(particlesRef) :
                        /\ \A picks \in [1..CheckCount(Len(samples')) -> RandEnds] :
                                NearestOfPicked(particlesRef[i],
                                    Best(particlesRef[i], samples', picks,
                                         canvas.clientWidth, canvas.clientHeight,
                                         edgeFieldRef.w, edgeFieldRef.h),
                                    samples', picks)
                        /\ \E picks \in [1..CheckCount(Len(samples')) -> RandEnds] :
                           \E kj \in RandEnds :
                                SteeredToward(particlesRef[i], particlesRef'[i],
                                    Best(particlesRef[i], samples', picks,
                                         canvas.clientWidth, canvas.clientHeight,
                                         edgeFieldRef.w, edgeFieldRef.h),
                                    kj)]_vars

\* a call with two different samples in the pool
C23_Witness ==
    /\ pc = "step"
    /\ Len(samples) = 2
    /\ samples[1].idx # samples[2].idx
    /\ \E q \in Pool : q.vx # 0

\* C24: once the unmount cleanup of CameraFeed has run, the processing loop
\* begins no further iteration and requests no further animation frame,
\* also when the cleanup ran while an iteration was suspended at seg.send
\* and that iteration resumes afterwards.
C24_CleanupStopsLoop ==
    [][unmounted => /\ camFrames' = camFrames
                    /\ camScheduled' \subseteq camScheduled]_vars

\* C25: whatever the sequence of prop changes and resizes, at most one
\* animation-frame callback of the component is pending, it is the one the
\* latest loop iteration requested, and none is pending while the
\* component is not running: the cleanup has cancelled the callback of the
\* run it ends.  So a tick runs only as the one pending callback of the
\* current run, and it leaves exactly its own request pending.
C25_OneLoopLive ==
    /\ [](/\ Cardinality(scheduled) <= 1
          /\ scheduled \subseteq {rafRef}
          /\ ~running => scheduled = {})
    /\ [][pc' = "loop" =>
            /\ scheduled = {rafRef}
            /\ scheduled' = {rafRef'}
            /\ rafRef' # rafRef]_vars

\* an effect run has replaced the pending callback of the run before it
C25_Witness ==
    /\ pc = "effect"
    /\ running
    /\ rafRef >= 2
    /\ nextId > Len(particlesRef) + 1
    /\ scheduled = {rafRef}

\* C26: the processing loop has at most one seg.send request outstanding,
\* and whenever a send settles (its results delivered to the handler or
\* not, its promise resolved or rejected) isProcessing is false again, so
\* the next iteration with a ready video sends the next frame.
C26_SendClearsProcessing ==
    /\ [](outstanding <= 1)
    /\ [][outstanding' < outstanding => ~isProcessing']_vars

\* the red-channel values computeEdgeField reads from mask mc
RedValues(mc) ==
    {getImageData(mc)[i] : i \in {j \in DOMAIN getImageData(mc) : j % 4 = 0}}

\* C27: in every state, so in whatever state an animation tick runs and
\* reads the mask, every pixel of the mask canvas has red channel 0 or 255:
\* the handler draws the raw mask and thresholds it in one callback, and
\* no state lies between the two.
C27_MaskIsBinary ==
    maskCanvas # NoMask => RedValues(maskCanvas) \subseteq {0, 255}

\* a tick has extracted the field of a mask the handler made from a raw
\* mask with values between 0 and 255
C27_Witness ==
    /\ pc = "loop"
    /\ results # NoResults
    /\ results.segmentationMask = "soft"
    /\ maskCanvas # NoMask
    /\ maskCanvas.pat \in {"left", "right"}
    /\ edgeFieldRef # NoField
    /\ edgeFieldRef.edgeCount > 0

\* C28: whenever startCamera has failed and set an error, the error
\* message is displayed and the Start Camera button is available: error is
\* never set while the overlay that shows both is hidden.
C28_ErrorIsShown ==
    error # NoError => ErrorDisplayed /\ ButtonAvailable

\* no cell of mask mc is above the threshold
EdgeFree(mc) ==
    \A c \in InteriorCells(mc.w, mc.h) : Raw(mc, c) = 0

\* C29: once the mask holds no above-threshold edge, the smoothed
\* magnitudes reach 0 after finitely many extractions, and edgeCount with
\* them.  In the form a finite run refutes: an extraction over an
\* edge-free mask that returns the magnitudes it was given as history has
\* come to the end of the decay (every later one returns them again), so
\* these magnitudes are all 0 and edgeCount is 0.
C29_DecayReachesZero ==
    [][(/\ pc' = "loop"
        /\ ExtractionStep
        /\ EdgeFree(maskCanvas')
        /\ edgeFieldRef # NoField
        /\ edgeFieldRef'.mag = edgeFieldRef.mag) =>
            /\ edgeFieldRef'.edgeCount = 0
            /\ \A i \in DOMAIN edgeFieldRef'.mag : edgeFieldRef'.mag[i] = 0]_vars

====
